---------------------------- MODULE Spec2Model ----------------------------
(***************************************************************************)
(* Model of src/minesweeper.py: the Minesweeper board, the Sentence class  *)
(* and the MinesweeperAI knowledge base (add_knowledge with its nested     *)
(* removed / conclude helpers, make_safe_move, make_random_move).          *)
(*                                                                         *)
(* A cell is a pair <<row, column>>.  A Sentence is a record               *)
(* [cells |-> set of cells, count |-> integer].  Python lists are          *)
(* sequences; list.remove and the `in` test on lists use Sentence.__eq__,  *)
(* which is equality of the records.  Sentence objects are shared between  *)
(* self.knowledge and the local list KB of conclude; every mutation of an  *)
(* object goes through MinesweeperAI.mark_mine / mark_safe, which update   *)
(* every object of self.knowledge, and every object of KB (and the loop    *)
(* variable k) is an object of self.knowledge, so the model applies each   *)
(* mark to knowledge, KB and k alike.                                      *)
(***************************************************************************)
EXTENDS Integers, Sequences, FiniteSets, TLC

\* ------------------------------------------------------------------ bounds
\* number of cells of the corner window in which cells are revealed
WinCells == 4
\* most mines a layout places next to the window
MaxMines == 2
\* most add_knowledge calls in one run of the game loop
MaxCalls == 4
\* the same, when the player also asks the AI for moves
MaxPlayCalls == 3
\* sides of the boards smaller and larger than the default one
SmallSize == 2
LargeSize == 9
\* window, most add_knowledge calls and largest reported count when the
\* caller reports arbitrary counts
ApiCells == 4
MaxApiCalls == 4
MaxCount == 1
\* the window and the number of calls of the scenario game
ScenarioCells == 9
ScenarioCalls == 7

\* ------------------------------------------------------- program constants
\* default height and width of Minesweeper and MinesweeperAI
DefaultSize == 8
\* the literal the neighbourhood is clipped against:  x < 8 and y < 8
ClipLimit == 8
\* the literal upper end of random.randint(0, 7)
RandMax == 7

VARIABLES
    height, width,      \* MinesweeperAI.height / width (= the board's)
    board,              \* Minesweeper.mines: the cells that hold a mine
    moves_made, mines, safes, knowledge,    \* MinesweeperAI fields
    pc,                 \* position inside the running method
    cell, count,        \* arguments of the running add_knowledge
    sentence,           \* local `sentence` of add_knowledge
    lenght, i,          \* locals of the subset loop (i is 1-based here)
    KB, aliased,        \* local list of conclude; aliased: KB is self.knowledge
    it, k,              \* for-loop iterator position and loop variable (<<>>: unbound)
    examined,           \* per element of KB: the running pass of the for loop
                        \* has yielded it
    pending, marking,   \* cells left in `for cell in cells`, and which branch
    result,             \* value returned by the last make_*_move (<<>>: None)
    xy,                 \* locals x, y of a running make_random_move (<<>>: unbound)
    lastOp,             \* the method that returned last
    ncalls,             \* number of add_knowledge calls so far
    repeated, prevOut,  \* the running/last add_knowledge has the arguments of
                        \* the call before it; safes, mines and moves_made
                        \* as that call left them
    inferables          \* <<difference set, count difference>> of the new
                        \* sentence of the running/last add_knowledge and each
                        \* sentence that was a proper subset or superset of it

vars == <<height, width, board, moves_made, mines, safes, knowledge, pc, cell,
          count, sentence, lenght, i, KB, aliased, it, k, examined, pending,
          marking,
          result, xy, lastOp, ncalls, repeated, prevOut, inferables>>

aiState == <<moves_made, mines, safes, knowledge>>
locals  == <<cell, count, sentence, lenght, i, KB, aliased, it, k, examined,
             pending, marking>>
world   == <<height, width, board>>
history == <<repeated, prevOut, inferables>>

\* ------------------------------------------------------------- Minesweeper
Min(a, b) == IF a < b THEN a ELSE b

Grid(h, w) == (0 .. h - 1) \X (0 .. w - 1)

\* Minesweeper.nearby_mines
nearby_mines(c) ==
    Cardinality({ n \in ((c[1] - 1) .. (c[1] + 1)) \X ((c[2] - 1) .. (c[2] + 1)) :
                    /\ n # c
                    /\ 0 <= n[1] /\ n[1] < height
                    /\ 0 <= n[2] /\ n[2] < width
                    /\ n \in board })

\* Minesweeper.is_mine
is_mine(c) == c \in board

\* ---------------------------------------------------------------- Sentence
Sentence(cells, cnt) == [cells |-> cells, count |-> cnt]

empty == Sentence({}, 0)

\* Sentence.known_mines / known_safes: <<set>> for a returned set, <<>> for None
known_mines(s) == IF Cardinality(s.cells) = s.count THEN <<s.cells>> ELSE <<>>

known_safes(s) == IF 0 = s.count THEN <<s.cells>> ELSE <<>>

\* Python truth value of a returned set-or-None
Truthy(opt) == opt # <<>> /\ opt[1] # {}

\* mutant: the mine is removed but the count is not decremented
Sentence_mark_mine_KeepsCount(s, c) ==
    IF c \in s.cells THEN [cells |-> s.cells \ {c}, count |-> s.count] ELSE s

\* mutant: a safe cell is removed and the count decremented
Sentence_mark_safe_Decrements(s, c) ==
    IF c \in s.cells THEN [cells |-> s.cells \ {c}, count |-> s.count - 1] ELSE s

\* Sentence.mark_mine / mark_safe
Sentence_mark_mine(s, c) ==
    IF c \in s.cells THEN [cells |-> s.cells \ {c}, count |-> s.count - 1] ELSE s

Sentence_mark_safe(s, c) ==
    IF c \in s.cells THEN [cells |-> s.cells \ {c}, count |-> s.count] ELSE s

\* ------------------------------------------------------------ list helpers
InList(x, s) == \E j \in 1 .. Len(s) : s[j] = x

SentencesOf(list) == { list[j] : j \in 1 .. Len(list) }

\* position of the first element equal to x
IndexOf(s, x) == CHOOSE j \in 1 .. Len(s) : s[j] = x /\ \A m \in 1 .. (j - 1) : s[m] # x

\* del s[f]
RemoveAt(s, f) == [j \in 1 .. (Len(s) - 1) |-> IF j < f THEN s[j] ELSE s[j + 1]]

\* no element of a list yielded yet
NoneYielded(list) == [j \in 1 .. Len(list) |-> FALSE]

\* list.remove(x): drops the first element equal to x
ListRemove(s, x) ==
    LET first == CHOOSE j \in 1 .. Len(s) :
                    s[j] = x /\ \A m \in 1 .. (j - 1) : s[m] # x
    IN  [j \in 1 .. (Len(s) - 1) |-> IF j < first THEN s[j] ELSE s[j + 1]]

\* removed(KB), nested in add_knowledge
RECURSIVE removedFrom(_, _)
removedFrom(rest, new) ==
    IF rest = <<>> THEN new
    ELSE LET x == Head(rest)
         IN  removedFrom(Tail(rest),
                         IF ~InList(x, new) /\ x # empty THEN Append(new, x) ELSE new)

removed(list) == removedFrom(list, <<>>)

\* mutant: the neighbourhood keeps the cells already revealed
Neighbourhood_KeepsMoves(c, made) ==
    { n \in ((c[1] - 1) .. (c[1] + 1)) \X ((c[2] - 1) .. (c[2] + 1)) :
        /\ ~(n[1] = c[1] /\ n[2] = c[2])
        /\ n[1] > -1 /\ n[2] > -1
        /\ n[1] < ClipLimit /\ n[2] < ClipLimit }

\* the neighbourhood add_knowledge builds for its new sentence
Neighbourhood(c, made) ==
    { n \in ((c[1] - 1) .. (c[1] + 1)) \X ((c[2] - 1) .. (c[2] + 1)) :
        /\ ~(n[1] = c[1] /\ n[2] = c[2])
        /\ n[1] > -1 /\ n[2] > -1
        /\ n \notin made
        /\ n[1] < ClipLimit /\ n[2] < ClipLimit }

\* mutant: the inferred sentence keeps the larger sentence's count
Inferred_KeepsCount(old, new) ==
    IF old.cells \subseteq new.cells
    THEN <<Sentence(new.cells \ old.cells, new.count)>>
    ELSE IF new.cells \subseteq old.cells
    THEN <<Sentence(old.cells \ new.cells, old.count)>>
    ELSE <<>>

\* the sentence the subset loop infers from knowledge[i] and the new sentence
\* (<<>>: neither branch applies)
Inferred(old, new) ==
    IF old.cells \subseteq new.cells
    THEN <<Sentence(new.cells \ old.cells, new.count - old.count)>>
    ELSE IF new.cells \subseteq old.cells
    THEN <<Sentence(old.cells \ new.cells, old.count - new.count)>>
    ELSE <<>>

\* mutant: conclude returns as soon as one pass of the for loop is over
ConcludeReturns_AfterOnePass(list, kk) == Len(list) >= 0

\* mutant: conclude returns only once the list is empty
ConcludeReturns_OnlyWhenEmpty(list, kk) == Len(list) = 0

\* the exit test of conclude's while loop
ConcludeReturns(list, kk) ==
    (Len(list) > 0 /\ kk[1] = list[Len(list)]) \/ Len(list) = 0


\* MinesweeperAI.mark_safe / mark_mine applied to the sentences of one list
MarkSafeIn(list, c) == [j \in 1 .. Len(list) |-> Sentence_mark_safe(list[j], c)]

MarkMineIn(list, c) == [j \in 1 .. Len(list) |-> Sentence_mark_mine(list[j], c)]

\* mutant: the loop returns a safe cell without looking at moves_made
SafeMoveResults_AnySafe(sf, made) ==
    IF sf = {} THEN {<<>>} ELSE { <<c>> : c \in sf }

\* make_safe_move: the values the loop over the set self.safes can return
SafeMoveResults(sf, made) ==
    IF sf \ made = {} THEN {<<>>} ELSE { <<c>> : c \in sf \ made }

\* make_random_move: the loop returns the drawn cell when this holds
RandomMoveAccepts(c, made, mn) == c \notin made /\ c \notin mn

\* the cells random.randint(0, 7) twice can draw
RandomDraws == (0 .. RandMax) \X (0 .. RandMax)

\* ------------------------------------------------------------------- Init
\* position of a cell when the squares growing from corner (0,0) are
\* enumerated: (0,0); (0,1) (1,0) (1,1); (0,2) (1,2) (2,0) (2,1) (2,2); ...
CellIndex(c) ==
    LET m == IF c[1] > c[2] THEN c[1] ELSE c[2]
    IN  m * m + (IF c[2] = m /\ c[1] < m THEN c[1] ELSE m + c[2])

\* the window lies in the corner (0,0) of a board no larger than the default
\* one and in the opposite corner of a larger board
Place(c, h, w) == IF h > DefaultSize THEN <<h - 1 - c[1], w - 1 - c[2]>> ELSE c

\* cells the game loop reveals: the first n cells of that enumeration that
\* lie on the board
WindowOf(n, h, w) == { Place(c, h, w) : c \in { d \in Grid(h, w) : CellIndex(d) < n } }

Window(n) == WindowOf(n, height, width)

Near(c, d) ==
    /\ c[1] - d[1] \in -1 .. 1
    /\ c[2] - d[2] \in -1 .. 1

\* cells that may hold a mine: the window and its neighbours
MineArea(h, w) ==
    { d \in Grid(h, w) : \E c \in WindowOf(WinCells, h, w) : Near(c, d) }

Sizes == {SmallSize, DefaultSize, LargeSize}

InitAI ==
    /\ moves_made = {} /\ mines = {} /\ safes = {} /\ knowledge = <<>>
    /\ pc = "idle"
    /\ cell = <<0, 0>> /\ count = 0 /\ sentence = empty
    /\ lenght = 0 /\ i = 0
    /\ KB = <<>> /\ aliased = FALSE /\ it = 0 /\ k = <<>> /\ examined = <<>>
    /\ pending = {} /\ marking = "none"
    /\ result = <<>> /\ xy = <<>> /\ lastOp = "none"
    /\ ncalls = 0
    /\ repeated = FALSE /\ prevOut = <<{}, {}, {}>> /\ inferables = {}

\* a board with a mine layout, and an AI of the board's dimensions
Init ==
    /\ height \in Sizes /\ width = height
    /\ board \in { m \in SUBSET MineArea(height, width) : Cardinality(m) <= MaxMines }
    /\ InitAI

\* one game: the default board with mines at (0,1) and (1,2)
ScenarioBoard == {<<0, 1>>, <<1, 2>>}

InitScenario ==
    /\ height = DefaultSize /\ width = DefaultSize
    /\ board = ScenarioBoard
    /\ InitAI

\* the AI alone: its caller reports whatever counts it likes
InitApi ==
    /\ height = DefaultSize /\ width = DefaultSize
    /\ board = {}
    /\ InitAI

\* the end of a game: every cell of the default board holds a mine except
\* (0,0) and nine cells whose neighbourhoods cover the board
EndgameSafe == {<<0, 0>>} \cup ({1, 4, 7} \X {1, 4, 7})

EndgameBoard == Grid(DefaultSize, DefaultSize) \ EndgameSafe

InitEndgame ==
    /\ height = DefaultSize /\ width = DefaultSize
    /\ board = EndgameBoard
    /\ InitAI

\* ---------------------------------------------------------- add_knowledge
\* lines 170-172: moves_made.add(cell); mark_safe(cell)
add_knowledge(c, n) ==
    /\ pc = "idle"
    /\ moves_made' = moves_made \cup {c}
    /\ safes' = safes \cup {c}
    /\ knowledge' = MarkSafeIn(knowledge, c)
    /\ cell' = c /\ count' = n
    /\ pc' = "build"
    /\ ncalls' = ncalls + 1
    /\ repeated' = (ncalls > 0 /\ c = cell /\ n = count)
    /\ prevOut' = IF repeated' THEN <<safes, mines, moves_made>> ELSE <<{}, {}, {}>>
    /\ inferables' = {}
    /\ result' = <<>> /\ lastOp' = "none"
    /\ UNCHANGED <<world, mines, sentence, lenght, i, KB, aliased, it, k,
                   examined, pending, marking, xy>>

\* the game loop: reveal a cell that holds no mine, report its true count
RevealUpTo(limit, n) ==
    /\ ncalls < limit
    /\ \E c \in Window(n) \ board : add_knowledge(c, nearby_mines(c))

Reveal == RevealUpTo(MaxCalls, WinCells)

RevealPlay == RevealUpTo(MaxPlayCalls, WinCells)

RevealScenario == RevealUpTo(ScenarioCalls, ScenarioCells)

\* the end of a game: the player reveals the cells without a mine, nearest
\* to the corner first
RevealNext ==
    \E c \in EndgameSafe \ moves_made :
        /\ \A d \in EndgameSafe \ moves_made : CellIndex(c) <= CellIndex(d)
        /\ add_knowledge(c, nearby_mines(c))

\* any caller: any cell of the window, any count
Report ==
    /\ ncalls < MaxApiCalls
    /\ \E c \in Window(ApiCells), n \in 0 .. MaxCount : add_knowledge(c, n)

\* what the claims expect of subset inference: for the new sentence and each
\* listed sentence whose cells are a proper subset or superset of its cells,
\* the difference of the cell sets with the difference of the counts
SubsetPairs(list, new) ==
    { <<s.cells \ new.cells, s.count - new.count>> :
        s \in { x \in SentencesOf(list) :
                   new.cells \subseteq x.cells /\ new.cells # x.cells } }
    \cup
    { <<new.cells \ s.cells, new.count - s.count>> :
        s \in { x \in SentencesOf(list) :
                   x.cells \subseteq new.cells /\ new.cells # x.cells } }

\* lines 173-186: build the sentence; append it unless an equal one is known
BuildSentence ==
    /\ pc = "build"
    /\ LET s == Sentence(Neighbourhood(cell, moves_made), count)
       IN  /\ sentence' = s
           /\ IF ~InList(s, knowledge)
              THEN /\ knowledge' = Append(knowledge, s)
                   /\ lenght' = Len(knowledge)
                   /\ i' = 1
                   /\ pc' = IF Len(knowledge) = 0 THEN "conclude" ELSE "infer"
                   /\ inferables' = SubsetPairs(knowledge, s)
              ELSE /\ pc' = "conclude"
                   /\ UNCHANGED <<knowledge, lenght, i, inferables>>
    /\ UNCHANGED <<world, moves_made, mines, safes, cell, count, KB, aliased,
                   it, k, examined, pending, marking, result, xy, lastOp,
                   ncalls, repeated, prevOut>>

\* lines 188-196: one iteration of  for i in range(0, lenght)
InferStep ==
    /\ pc = "infer"
    /\ LET inf == Inferred(knowledge[i], sentence)
       IN  knowledge' = IF inf # <<>> /\ inf[1] # empty
                        THEN Append(knowledge, inf[1])
                        ELSE knowledge
    /\ i' = i + 1
    /\ pc' = IF i = lenght THEN "conclude" ELSE "infer"
    /\ UNCHANGED <<world, moves_made, mines, safes, cell, count, sentence,
                   lenght, KB, aliased, it, k, examined, pending, marking,
                   result, xy, lastOp, ncalls, history>>

\* line 228: conclude(self.knowledge); KB is the list self.knowledge itself
EnterConclude ==
    /\ pc = "conclude"
    /\ KB' = knowledge /\ aliased' = TRUE
    /\ it' = 0 /\ examined' = NoneYielded(knowledge)
    /\ pc' = "for"
    /\ UNCHANGED <<world, aiState, cell, count, sentence, lenght, i, k,
                   pending, marking, result, xy, lastOp, ncalls, history>>

\* line 209: the list iterator is exhausted
ForEnd ==
    /\ pc = "for"
    /\ it >= Len(KB)
    /\ pc' = "check"
    /\ UNCHANGED <<world, aiState, locals, result, xy, lastOp, ncalls, history>>

\* lines 209-225, up to the marking loops: the iterator yields KB[it]
ForBody ==
    /\ pc = "for"
    /\ it < Len(KB)
    /\ LET kk  == KB[it + 1]
           KB1 == IF kk = empty THEN ListRemove(KB, kk) ELSE KB
           ex1 == [examined EXCEPT ![it + 1] = TRUE]
       IN  /\ k' = <<kk>>
           /\ it' = it + 1
           /\ KB' = KB1
           /\ examined' = IF kk = empty THEN RemoveAt(ex1, IndexOf(KB, kk)) ELSE ex1
           /\ knowledge' = IF aliased THEN KB1 ELSE knowledge
           /\ IF Truthy(known_safes(kk))
              THEN pending' = known_safes(kk)[1] /\ marking' = "safe" /\ pc' = "mark"
              ELSE IF Truthy(known_mines(kk))
              THEN pending' = known_mines(kk)[1] /\ marking' = "mine" /\ pc' = "mark"
              ELSE pc' = "for" /\ UNCHANGED <<pending, marking>>
    /\ UNCHANGED <<world, moves_made, mines, safes, cell, count, sentence,
                   lenght, i, aliased, result, xy, lastOp, ncalls, history>>

\* lines 214-215 / 221-222: one iteration of  for cell in cells
MarkCell ==
    /\ pc = "mark"
    /\ \E c \in pending :
         /\ pending' = pending \ {c}
         /\ IF marking = "safe"
            THEN /\ safes' = safes \cup {c}
                 /\ knowledge' = MarkSafeIn(knowledge, c)
                 /\ KB' = MarkSafeIn(KB, c)
                 /\ k' = <<Sentence_mark_safe(k[1], c)>>
                 /\ UNCHANGED mines
            ELSE /\ mines' = mines \cup {c}
                 /\ knowledge' = MarkMineIn(knowledge, c)
                 /\ KB' = MarkMineIn(KB, c)
                 /\ k' = <<Sentence_mark_mine(k[1], c)>>
                 /\ UNCHANGED safes
    /\ UNCHANGED <<world, moves_made, pc, cell, count, sentence, lenght, i,
                   aliased, it, examined, marking, result, xy, lastOp, ncalls,
                   history>>

\* lines 216-218 / 223-225: KB.remove(k); KB = removed(KB); break
BreakOut ==
    /\ pc = "mark"
    /\ pending = {}
    /\ IF InList(k[1], KB)
       THEN LET KB1 == ListRemove(KB, k[1])
            IN  /\ knowledge' = IF aliased THEN KB1 ELSE knowledge
                /\ KB' = removed(KB1)
                /\ aliased' = FALSE
                /\ pc' = "check"
       ELSE pc' = "ValueError" /\ UNCHANGED <<knowledge, KB, aliased>>
    /\ examined' = <<>>
    /\ UNCHANGED <<world, moves_made, mines, safes, cell, count, sentence,
                   lenght, i, it, k, pending, marking, result, xy, lastOp,
                   ncalls, history>>

\* lines 226 and 208: the exit test fails, the while loop goes round again
LoopAgain ==
    /\ pc = "check"
    /\ IF Len(KB) > 0 /\ k = <<>>
       THEN pc' = "NameError" /\ UNCHANGED <<it, examined>>
       ELSE /\ ~ConcludeReturns(KB, k)
            /\ pc' = "for"
            /\ it' = 0 /\ examined' = NoneYielded(KB)
    /\ UNCHANGED <<world, aiState, cell, count, sentence, lenght, i, KB,
                   aliased, k, pending, marking, result, xy, lastOp, ncalls,
                   history>>

\* lines 226-229: conclude returns; self.knowledge = removed(self.knowledge)
Return ==
    /\ pc = "check"
    /\ ~(Len(KB) > 0 /\ k = <<>>)
    /\ ConcludeReturns(KB, k)
    /\ knowledge' = removed(knowledge)
    /\ pc' = "idle"
    /\ lastOp' = "add_knowledge"
    /\ sentence' = empty /\ lenght' = 0 /\ i' = 0
    /\ KB' = <<>> /\ aliased' = FALSE /\ it' = 0 /\ k' = <<>> /\ examined' = <<>>
    /\ pending' = {} /\ marking' = "none"
    /\ UNCHANGED <<world, moves_made, mines, safes, cell, count, result, xy,
                   ncalls, history>>

\* ------------------------------------------------------------ move queries
\* Neither query changes the AI, so asking the same one twice in a row reaches
\* nothing new: the caller asks each at most once between other calls.
make_safe_move ==
    /\ pc = "idle"
    /\ lastOp # "make_safe_move"
    /\ result' \in SafeMoveResults(safes, moves_made)
    /\ lastOp' = "make_safe_move"
    /\ UNCHANGED <<world, aiState, pc, locals, xy, ncalls, history>>

\* the while True loop: one draw per step, until a drawn cell is accepted
make_random_move ==
    /\ pc \in {"idle", "random"}
    /\ lastOp # "make_random_move"
    /\ \E c \in RandomDraws :
         IF RandomMoveAccepts(c, moves_made, mines)
         THEN /\ result' = <<c>> /\ xy' = <<>>
              /\ lastOp' = "make_random_move" /\ pc' = "idle"
         ELSE /\ result' = <<>> /\ xy' = <<c>>
              /\ lastOp' = "none" /\ pc' = "random"
    /\ UNCHANGED <<world, aiState, locals, ncalls, history>>

\* make_random_move is inside its while loop and draws again
RandomLoop == pc = "random" /\ make_random_move

\* ---------------------------------------------------------- specifications
Steps ==
    \/ BuildSentence
    \/ InferStep
    \/ EnterConclude
    \/ ForEnd
    \/ ForBody
    \/ MarkCell
    \/ BreakOut
    \/ LoopAgain
    \/ Return

Next ==
    \/ Reveal
    \/ Steps

NextApi ==
    \/ Report
    \/ Steps

NextScenario ==
    \/ RevealScenario
    \/ Steps

NextPlay ==
    \/ RevealPlay
    \/ Steps
    \/ make_safe_move

NextRandom ==
    \/ RevealPlay
    \/ Steps
    \/ make_random_move

NextEndgame ==
    \/ RevealNext
    \/ Steps
    \/ make_random_move

\* the game loop on a board: true counts of cells without a mine
Spec == Init /\ [][Next]_vars

\* the AI under any caller
ApiSpec == InitApi /\ [][NextApi]_vars

\* the game loop on the scenario board, in a larger window and for more calls
ScenarioSpec == InitScenario /\ [][NextScenario]_vars

\* the game loop with a player who asks the AI for safe moves
PlaySpec == Init /\ [][NextPlay]_vars

\* the game loop with a player who asks the AI for random moves
RandomSpec == Init /\ [][NextRandom]_vars

\* a started add_knowledge keeps running: the interpreter executes the next
\* statement of a running method
FairApiSpec == InitApi /\ [][NextApi]_vars /\ WF_vars(Steps)

\* the end of a game with a player who asks for random moves; a running
\* method keeps running
FairEndgameSpec ==
    InitEndgame /\ [][NextEndgame]_vars /\ WF_vars(Steps) /\ WF_vars(RandomLoop)

\* ----------------------------------------------------------------- claims
\* a sentence respects  0 <= count <= |cells|
WellFormed(s) == 0 <= s.count /\ s.count <= Cardinality(s.cells)

\* a sentence Rule A applies to: cells left, and count 0 or count = |cells|
Resolved(s) == s.cells # {} /\ (s.count = 0 \/ s.count = Cardinality(s.cells))

\* C1 (soundness): on a board whose dimensions equal the bound the
\* neighbourhood is clipped against, after any sequence of add_knowledge calls
\* that report the true counts of cells without a mine, every cell of
\* self.mines holds a mine and no cell of self.safes does.
C1_Sound ==
    (pc = "idle" /\ height = ClipLimit /\ width = ClipLimit)
        => (mines \subseteq board /\ safes \cap board = {})

\* C1 witness: calls returned having deduced a mine and a safe cell nobody revealed
C1_Witness ==
    /\ pc = "idle" /\ height = ClipLimit /\ width = ClipLimit
    /\ ncalls >= 2
    /\ mines # {}
    /\ safes \ moves_made # {}

\* C2: after every add_knowledge call of such a sequence, safes and mines
\* are disjoint.
C2_Disjoint == pc = "idle" => safes \cap mines = {}

\* C2 witness: a call returned with both sets holding deduced cells
C2_Witness ==
    /\ pc = "idle" /\ lastOp = "add_knowledge"
    /\ Cardinality(mines) >= 2
    /\ Cardinality(safes \ moves_made) >= 2

\* C3: at every point in time, also inside add_knowledge (after the first
\* mark_safe, after each inferred sentence is appended, after each single
\* mark inside conclude), every sentence of the knowledge list has
\* 0 <= count <= |cells|.
C3_CountInRange ==
    \A s \in SentencesOf(knowledge) \cup SentencesOf(KB) : WellFormed(s)

\* C3 witness: inside the mine-marking loop of conclude, after one cell was
\* marked and with another still to mark, next to further live sentences
C3_Witness ==
    /\ pc = "mark" /\ marking = "mine"
    /\ pending # {} /\ mines # {}
    /\ Len(knowledge) >= 3
    /\ \E s \in SentencesOf(knowledge) : s.cells # {} /\ s # k[1] /\ s.count >= 1

\* C4: every add_knowledge call terminates: from any reachable state, with any
\* list content (empty sentences and duplicates included), a started call
\* reaches its return; conclude's while loop does not go round for ever.
C4_Terminates == (pc # "idle") ~> (pc = "idle")

\* C4 witness: conclude is about to iterate over a list that holds an empty
\* sentence and two equal sentences
C4_Witness ==
    /\ pc = "for" /\ it = 0
    /\ InList(empty, KB)
    /\ \E a, b \in 1 .. Len(KB) : a # b /\ KB[a] = KB[b] /\ KB[a] # empty

\* C5: when add_knowledge returns, no sentence of self.knowledge is resolved:
\* none has cells left and count 0 or count = |cells|.
C5_RuleAFixpoint ==
    pc = "idle" => \A s \in SentencesOf(knowledge) : ~Resolved(s)

\* C5 witness: a call returned after conclude went round its while loop more
\* than once resolving sentences, and unresolved sentences are left
C5_Witness ==
    /\ pc = "idle" /\ lastOp = "add_knowledge"
    /\ mines # {} /\ safes \ moves_made # {}
    /\ Len(knowledge) >= 2

\* C6: Rule B is applied to a fixpoint: when add_knowledge returns, for every
\* two distinct sentences A, B of self.knowledge with A.cells a proper subset
\* of B.cells, the sentence (B.cells - A.cells, B.count - A.count) is in
\* self.knowledge too.
C6_RuleBFixpoint ==
    pc = "idle" =>
        \A a, b \in 1 .. Len(knowledge) :
            (a # b /\ knowledge[a].cells \subseteq knowledge[b].cells
                   /\ knowledge[a].cells # knowledge[b].cells)
            => InList(Sentence(knowledge[b].cells \ knowledge[a].cells,
                               knowledge[b].count - knowledge[a].count), knowledge)

\* C7 (idempotence): an add_knowledge call made right after a call with the
\* same cell and count leaves safes, mines and moves_made as that call left
\* them.
C7_Idempotent ==
    (pc = "idle" /\ repeated) => <<safes, mines, moves_made>> = prevOut

\* C8: after every add_knowledge call, self.knowledge holds no two equal
\* sentences and no sentence whose cell set is empty.
C8_NoDuplicateNoEmpty ==
    pc = "idle" =>
        /\ \A a, b \in 1 .. Len(knowledge) : a # b => knowledge[a] # knowledge[b]
        /\ \A a \in 1 .. Len(knowledge) : knowledge[a].cells # {}

\* C9: make_safe_move returns a cell of safes that is not in moves_made when
\* there is one, returns None exactly when safes is a subset of moves_made,
\* and leaves safes, mines, moves_made and the knowledge list unchanged.
C9_SafeMove ==
    [][ make_safe_move =>
          /\ (result' = <<>>) <=> (safes \subseteq moves_made)
          /\ result' # <<>> => (result'[1] \in safes /\ result'[1] \notin moves_made)
          /\ UNCHANGED <<safes, mines, moves_made, knowledge>> ]_vars

\* C9 witness: make_safe_move returned a cell while other safe cells had
\* already been played and a mine was known
C9_Witness ==
    /\ lastOp = "make_safe_move" /\ result # <<>>
    /\ moves_made # {} /\ mines # {} /\ knowledge # <<>>

\* the cells the claim lets make_random_move return
Candidates == Grid(height, width) \ (moves_made \cup mines)

\* C10: make_random_move, for an AI of any height and width, returns exactly
\* the cells of the height x width grid that are neither in moves_made nor in
\* mines: every returned cell is one, and every one can be returned.
C10_RandomMove ==
    /\ lastOp = "make_random_move" => result[1] \in Candidates
    /\ pc = "idle" =>
         \A c \in Candidates :
            c \in RandomDraws /\ RandomMoveAccepts(c, moves_made, mines)

\* C11: when every grid cell is in moves_made or in mines, make_random_move
\* does not stay in its draw loop for ever: the call ends.
C11_RandomMoveEnds == (pc = "random" /\ Candidates = {}) ~> (pc # "random")

\* the cells that occur in the sentences of a list
CellsOf(list) == UNION { s.cells : s \in SentencesOf(list) }

\* C12: for an AI of any height and width, after any sequence of
\* add_knowledge calls on cells of the grid, every cell of safes, of mines and
\* of every sentence of self.knowledge lies on the height x width grid.
C12_InGrid ==
    pc = "idle" =>
        (safes \cup mines \cup CellsOf(knowledge)) \subseteq Grid(height, width)

\* C13: add_knowledge fails fast: a call that leaves a sentence with
\* count < 0 or count > |cells| does not return normally, so no such
\* sentence is in self.knowledge when a call has returned.
C13_FailFast ==
    pc = "idle" => \A s \in SentencesOf(knowledge) : WellFormed(s)

\* the 8-neighbours of a cell that lie on the height x width grid
GridNeighbours(c) == { n \in Grid(height, width) : Near(c, n) /\ n # c }

\* C14 (zero-count reveal): from any reachable state, when
\* add_knowledge(cell, 0) has returned, 0 being the true count, every
\* neighbour of cell on the grid is in safes.
C14_ZeroReveal ==
    (pc = "idle" /\ lastOp = "add_knowledge" /\ count = 0)
        => GridNeighbours(cell) \subseteq safes

\* C15 (saturated reveal): from any reachable state, when
\* add_knowledge(cell, n) has returned, n >= 1 being the true count and the
\* number of neighbours of cell on the grid that are not in moves_made, every
\* one of those neighbours is in mines.
C15_SaturatedReveal ==
    (/\ pc = "idle" /\ lastOp = "add_knowledge"
     /\ count >= 1
     /\ count = Cardinality(GridNeighbours(cell) \ moves_made))
        => (GridNeighbours(cell) \ moves_made) \subseteq mines

\* C16: when add_knowledge adds a new sentence N and a sentence K already in
\* the list has cells that are a proper subset or superset of N's, then on
\* return every cell of the difference set is in mines if the count
\* difference equals the size of the difference set, and in safes if the
\* count difference is 0.
C16_SubsetConclusion ==
    pc = "idle" =>
        \A p \in inferables :
            /\ p[2] = Cardinality(p[1]) => p[1] \subseteq mines
            /\ p[2] = 0 => p[1] \subseteq safes

\* ------------------------------------------- add_knowledge as one function
\* The same code as the actions above, run from the call to the return in
\* one evaluation, for claims that compare the outcomes of two calls.
\* MinesweeperAI.mark_safe / mark_mine for each cell of a set, on one list
MarkAllSafe(list, cs) ==
    [j \in 1 .. Len(list) |-> Sentence(list[j].cells \ cs, list[j].count)]

MarkAllMine(list, cs) ==
    [j \in 1 .. Len(list) |->
        Sentence(list[j].cells \ cs,
                 list[j].count - Cardinality(list[j].cells \cap cs))]

\* lines 188-196: the subset loop from index j on (1-based), over the
\* sentences that were in the list before the new one
RECURSIVE InferFrom(_, _, _, _)
InferFrom(list, new, j, len) ==
    IF j > len THEN list
    ELSE LET inf == Inferred(list[j], new)
         IN  InferFrom(IF inf # <<>> /\ inf[1] # empty
                       THEN Append(list, inf[1]) ELSE list,
                       new, j + 1, len)

\* conclude: st holds self.knowledge (kn), the local list (KB), whether the
\* two are one list (al), the iterator (it), the loop variable (k) and the
\* sets safes (sf) and mines (mn); the value is st at the return, with
\* err set when list.remove(k) or the exit test raise
RECURSIVE ConcludeFor(_)
ConcludeCheck(st) ==
    IF Len(st.KB) > 0 /\ st.k = <<>> THEN [st EXCEPT !.err = TRUE]
    ELSE IF ConcludeReturns(st.KB, st.k) THEN st
    ELSE ConcludeFor([st EXCEPT !.it = 0])

ConcludeBreak(st) ==
    IF InList(st.k[1], st.KB)
    THEN LET KB1 == ListRemove(st.KB, st.k[1])
         IN  ConcludeCheck([st EXCEPT !.kn = IF st.al THEN KB1 ELSE st.kn,
                                      !.KB = removed(KB1),
                                      !.al = FALSE])
    ELSE [st EXCEPT !.err = TRUE]

ConcludeFor(st) ==
    IF st.it >= Len(st.KB) THEN ConcludeCheck(st)
    ELSE LET kk  == st.KB[st.it + 1]
             KB1 == IF kk = empty THEN ListRemove(st.KB, kk) ELSE st.KB
             kn1 == IF st.al THEN KB1 ELSE st.kn
         IN  IF Truthy(known_safes(kk))
             THEN ConcludeBreak([st EXCEPT !.kn = MarkAllSafe(kn1, kk.cells),
                                           !.KB = MarkAllSafe(KB1, kk.cells),
                                           !.k  = <<Sentence({}, kk.count)>>,
                                           !.it = st.it + 1,
                                           !.sf = st.sf \cup kk.cells])
             ELSE IF Truthy(known_mines(kk))
             THEN ConcludeBreak([st EXCEPT !.kn = MarkAllMine(kn1, kk.cells),
                                           !.KB = MarkAllMine(KB1, kk.cells),
                                           !.k  = <<Sentence({}, kk.count - Cardinality(kk.cells))>>,
                                           !.it = st.it + 1,
                                           !.mn = st.mn \cup kk.cells])
             ELSE ConcludeFor([st EXCEPT !.kn = kn1, !.KB = KB1,
                                         !.k = <<kk>>, !.it = st.it + 1])

\* add_knowledge(c, n) on an AI with the given fields: the fields at the return
AddKnowledge(made, sf, mn, kn, c, n) ==
    LET made1 == made \cup {c}
        kn1   == MarkAllSafe(kn, {c})
        s     == Sentence(Neighbourhood(c, made1), n)
        kn2   == IF ~InList(s, kn1)
                 THEN InferFrom(Append(kn1, s), s, 1, Len(kn1))
                 ELSE kn1
        end   == ConcludeFor([kn |-> kn2, KB |-> kn2, al |-> TRUE, it |-> 0,
                              k |-> <<>>, sf |-> sf \cup {c}, mn |-> mn,
                              err |-> FALSE])
    IN  [moves_made |-> made1, safes |-> end.sf, mines |-> end.mn,
         knowledge |-> removed(end.kn), err |-> end.err]

\* the orders a list can be put in
Reorderings(list) ==
    { [j \in 1 .. Len(list) |-> list[f[j]]] : f \in Permutations(1 .. Len(list)) }

\* what C17 compares of an outcome
Conclusions(out) == <<out.safes, out.mines, SentencesOf(out.knowledge)>>

\* C17 (order independence): for any reachable state and any order of the
\* sentences of self.knowledge, the same add_knowledge(cell, count) call
\* yields the same safes, the same mines and the same set of sentences.
C17_OrderIndependent ==
    pc = "idle" =>
        \A c \in Window(WinCells) \ board :
            \A other \in Reorderings(knowledge) :
                Conclusions(AddKnowledge(moves_made, safes, mines, other, c, nearby_mines(c)))
                  = Conclusions(AddKnowledge(moves_made, safes, mines, knowledge, c, nearby_mines(c)))

\* C18: no sentence is skipped by mutation during iteration: when a pass of
\* conclude's for loop ends without a break, the loop has yielded every
\* sentence that is in the list then; removing a sentence inside the pass
\* makes the iterator step over no other sentence.
C18_NoneSkipped ==
    pc = "check" => \A j \in 1 .. Len(examined) : examined[j]

\* C19: after every add_knowledge call returns, no sentence in self.knowledge
\* contains a cell that is in safes or in mines.
C19_KnownCellsRemoved ==
    (pc = "idle" /\ lastOp = "add_knowledge") =>
        CellsOf(knowledge) \cap (safes \cup mines) = {}

\* C20: after every add_knowledge call, moves_made is a subset of safes and
\* no sentence in self.knowledge, inferred ones included, contains a cell of
\* moves_made.
C20_MovesAreSafe ==
    (pc = "idle" /\ lastOp = "add_knowledge") =>
        /\ moves_made \subseteq safes
        /\ CellsOf(knowledge) \cap moves_made = {}

\* a call has returned that appended a sentence of the subset loop, with
\* earlier moves next to it and sentences left in the list
C20_Witness ==
    /\ pc = "idle" /\ lastOp = "add_knowledge"
    /\ Cardinality(moves_made) >= 2
    /\ inferables # {}
    /\ \E s \in SentencesOf(knowledge) : \E p \in inferables : s.cells \subseteq p[1] /\ s.cells # {}

=============================================================================
